---- MODULE Spec2Model ----
(***************************************************************************)
(* BinanceTradingBot (src/main.py): the order ledger (self.orders,         *)
(* self.order_history) and the six placement operations, each followed     *)
(* statement by statement.  The exchange client is the environment: every  *)
(* futures_create_order call either returns an order or raises.            *)
(*                                                                         *)
(* Prices given and submitted are integers in units of the tick (0.01);    *)
(* the grid price between them is computed in IEEE 754 doubles, as Python  *)
(* does.  Quantities are small integers.  Wall-clock timestamps of ledger  *)
(* entries are not modelled.                                               *)
(***************************************************************************)
EXTENDS Integers, Sequences, FiniteSets, TLC

\* ------------------------------------------------------------------ bounds
MaxHistory == 2     \* the exchange accepts no order once the ledger holds this many
MaxLevels == 3      \* largest grid_levels / num_slices a caller passes
MaxPlanLevels == 5  \* largest grid_levels where whole grid plans are followed
MaxPlanHistory == 4 \* ... and the ledger size up to which the exchange accepts there

\* ------------------------------------------------------------------ inputs
None == [none |-> TRUE]      \* Python's None, where a dict may stand instead
RawSymbols == {"BTC", "eth", "btcusdt"}
Sides == {"BUY", "SELL"}
Quantities == {0, 1}
Prices == {0, 1}
StopLimitPrices == {<<>>, <<2>>}     \* optional argument: <<>> is "not given"
BasePrices == {150}
GridPercentages == {60}

\* Grid inputs for the price computation: base prices in ticks (0.01, 1.01, 1.50,
\* 50000.00) and spreads in percent
GridBasePrices == {1, 101, 150, 5000000}
GridSpreads == {-60, 0, 2, 50, 60}

\* Grid plans followed level by level: base prices 7.00, 10.00 and 50000.00 with the
\* default spread of 2 percent
PlanBasePrices == {700, 1000, 5000000}
PlanSpreads == {2}
Intervals == {60}
LevelCounts == -1 .. MaxLevels
OrderIds == 1 .. MaxHistory          \* order_id argument of cancel_order / get_order_status
OptionalSymbols == {"", "BTC"}       \* get_open_orders symbol: Optional[str], "" is falsy

\* Symbols as a caller may spell them: a base asset followed by a quote suffix
BaseAssets == {"btc", "BTC", "Btc", "eth", "ETH", "bnb", "BNB", "sol", "doge", "x"}
QuoteSuffixes == {"", "USDT", "usdt", "Usdt", "UsdT", "USD", "usd", "USDTUSDT", "busd", "BUSD", "T"}
SymbolInputs == {b \o q : b \in BaseAssets, q \in QuoteSuffixes}

VARIABLES
    orders,          \* self.orders: orderId -> order
    order_history,   \* self.order_history: list of entries, oldest first
    op,              \* the operation being executed or last executed
    pc,              \* position inside that operation
    intent,          \* the operation's arguments (clean_symbol already computed)
    level,           \* loop variable: level (grid) / slice_num (TWAP)
    order,           \* local variable order: the exchange's response
    placed,          \* local variable orders of place_grid_order / place_twap_order
    result,          \* the value returned to the caller
    nextId,          \* exchange side: next orderId per symbol
    cancelRequested, \* the user has asked to abort the running TWAP
    trace,           \* history variable: exchange calls, outcomes and sleeps of this invocation
    ledger0          \* history variable: the ledger when this invocation was entered

vars == <<orders, order_history, op, pc, intent, level, order, placed, result,
          nextId, cancelRequested, trace, ledger0>>

\* ------------------------------------------------------- symbol normalizer
LowerCase == "abcdefghijklmnopqrstuvwxyz"
UpperCase == "ABCDEFGHIJKLMNOPQRSTUVWXYZ"

\* str.upper() on one character
UpperChar(c) ==
    IF \E i \in 1..Len(LowerCase) : SubSeq(LowerCase, i, i) = c
    THEN LET i == CHOOSE j \in 1..Len(LowerCase) : SubSeq(LowerCase, j, j) = c
         IN  SubSeq(UpperCase, i, i)
    ELSE c

RECURSIVE Upper(_)
Upper(s) == IF Len(s) = 0 THEN "" ELSE UpperChar(SubSeq(s, 1, 1)) \o Upper(SubSeq(s, 2, Len(s)))

\* str.replace(old, ""), old non-empty: every occurrence, left to right, case-sensitive
RECURSIVE Remove(_, _)
Remove(s, old) ==
    IF Len(s) < Len(old) THEN s
    ELSE IF SubSeq(s, 1, Len(old)) = old
         THEN Remove(SubSeq(s, Len(old) + 1, Len(s)), old)
         ELSE SubSeq(s, 1, 1) \o Remove(SubSeq(s, 2, Len(s)), old)

\* symbol.replace("USDT", "").upper() + "USDT"
CleanSymbol(symbol) == Upper(Remove(symbol, "USDT")) \o "USDT"

\* ---------------------------------------------------------------- exchange
ExchangeSymbols == {"BTCUSDT", "ETHUSDT"}


\* A quantity is the fraction <<numerator, denominator>> (quantity / grid_levels)
Positive(q) == q[1] * q[2] > 0

\* The exchange rejects an unknown symbol and non-positive quantities or prices
ExchangeAccepts(req) ==
    /\ req.symbol \in ExchangeSymbols
    /\ Positive(req.quantity)
    /\ "price" \in DOMAIN req => req.price > 0
    /\ "stopPrice" \in DOMAIN req => req.stopPrice > 0
    /\ "stopLimitPrice" \in DOMAIN req => req.stopLimitPrice > 0

\* The exchange's response to an accepted request
Response(req) ==
    [orderId |-> nextId[req.symbol], symbol |-> req.symbol,
     type |-> req.type, status |-> "NEW"]

\* ------------------------------------------------- binary floating point
\* Python floats are IEEE 754 doubles.  An unbounded natural is a sequence of limbs,
\* least significant first, in base 2^15 (so that limb products stay below 2^31);
\* <<>> is zero and the last limb is never 0.
Limb == 32768
LimbBits == 15
MantissaBits == 53

RECURSIVE Pow2(_)
Pow2(n) == IF n = 0 THEN 1 ELSE 2 * Pow2(n - 1)

RECURSIVE BigNorm(_)
BigNorm(a) ==
    IF Len(a) = 0 THEN a
    ELSE IF a[Len(a)] = 0 THEN BigNorm(SubSeq(a, 1, Len(a) - 1)) ELSE a

RECURSIVE BigFromInt(_)
BigFromInt(n) == IF n = 0 THEN <<>> ELSE <<n % Limb>> \o BigFromInt(n \div Limb)

RECURSIVE BigToInt(_)
BigToInt(a) == IF Len(a) = 0 THEN 0 ELSE a[1] + Limb * BigToInt(Tail(a))

RECURSIVE BigAddCarry(_, _, _)
BigAddCarry(a, b, carry) ==
    IF Len(a) = 0 /\ Len(b) = 0
    THEN IF carry = 0 THEN <<>> ELSE <<carry>>
    ELSE LET x == IF Len(a) = 0 THEN 0 ELSE a[1]
             y == IF Len(b) = 0 THEN 0 ELSE b[1]
             s == x + y + carry
         IN  <<s % Limb>> \o BigAddCarry(IF Len(a) = 0 THEN a ELSE Tail(a),
                                         IF Len(b) = 0 THEN b ELSE Tail(b),
                                         s \div Limb)

BigAdd(a, b) == BigAddCarry(a, b, 0)

\* a - b for a >= b
RECURSIVE BigSubBorrow(_, _, _)
BigSubBorrow(a, b, borrow) ==
    IF Len(a) = 0 THEN <<>>
    ELSE LET y == IF Len(b) = 0 THEN 0 ELSE b[1]
             d == a[1] - y - borrow
         IN  <<d % Limb>> \o BigSubBorrow(Tail(a), IF Len(b) = 0 THEN b ELSE Tail(b),
                                          IF d < 0 THEN 1 ELSE 0)

BigSub(a, b) == BigNorm(BigSubBorrow(a, b, 0))

\* -1, 0, 1 as a < b, a = b, a > b
RECURSIVE BigCmpFrom(_, _, _)
BigCmpFrom(a, b, i) ==
    IF i = 0 THEN 0
    ELSE IF a[i] < b[i] THEN -1
    ELSE IF a[i] > b[i] THEN 1
    ELSE BigCmpFrom(a, b, i - 1)

BigCmp(a, b) ==
    IF Len(a) < Len(b) THEN -1
    ELSE IF Len(a) > Len(b) THEN 1
    ELSE BigCmpFrom(a, b, Len(a))

\* a * d for 0 <= d < 2^15
RECURSIVE BigMulSmallCarry(_, _, _)
BigMulSmallCarry(a, d, carry) ==
    IF Len(a) = 0
    THEN IF carry = 0 THEN <<>> ELSE <<carry>>
    ELSE LET p == a[1] * d + carry
         IN  <<p % Limb>> \o BigMulSmallCarry(Tail(a), d, p \div Limb)

BigMulSmall(a, d) == IF d = 0 THEN <<>> ELSE BigMulSmallCarry(a, d, 0)

RECURSIVE BigMul(_, _)
BigMul(a, b) ==
    IF Len(b) = 0 \/ Len(a) = 0 THEN <<>>
    ELSE LET rest == BigMul(a, Tail(b))
         IN  BigAdd(BigMulSmall(a, b[1]), IF Len(rest) = 0 THEN rest ELSE <<0>> \o rest)

\* <<a \div d, a % d>> for 0 < d < 2^15
RECURSIVE BigDivSmallFrom(_, _, _, _)
BigDivSmallFrom(a, d, i, rem) ==
    IF i = 0 THEN <<<<>>, rem>>
    ELSE LET cur == rem * Limb + a[i]
             lower == BigDivSmallFrom(a, d, i - 1, cur % d)
         IN  <<Append(lower[1], cur \div d), lower[2]>>

BigDivSmall(a, d) ==
    LET r == BigDivSmallFrom(a, d, Len(a), 0) IN <<BigNorm(r[1]), r[2]>>

RECURSIVE Zeros(_)
Zeros(n) == IF n = 0 THEN <<>> ELSE <<0>> \o Zeros(n - 1)

\* a * 2^s and a \div 2^s
BigShl(a, s) ==
    IF Len(a) = 0 THEN a
    ELSE Zeros(s \div LimbBits) \o BigMulSmall(a, Pow2(s % LimbBits))

BigShr(a, s) ==
    IF Len(a) <= s \div LimbBits THEN <<>>
    ELSE BigDivSmall(SubSeq(a, s \div LimbBits + 1, Len(a)), Pow2(s % LimbBits))[1]

RECURSIVE IntBitLen(_)
IntBitLen(n) == IF n = 0 THEN 0 ELSE 1 + IntBitLen(n \div 2)

BigBitLen(a) == IF Len(a) = 0 THEN 0 ELSE LimbBits * (Len(a) - 1) + IntBitLen(a[Len(a)])

BigOdd(a) == Len(a) > 0 /\ a[1] % 2 = 1

\* A double: (-1)^neg * m * 2^e with 2^52 <= m < 2^53, or m = <<>> for zero.
\* Exponent range and subnormals are left out: the prices met here are far from both.
FloatZero == [neg |-> FALSE, m |-> <<>>, e |-> 0]

\* Round-to-nearest, ties-to-even, of (big + fraction) * 2^e to 53 bits, where fraction
\* is 0, or strictly between 0 and 1 when sticky holds (big then has more than 53 bits)
RoundToDouble(neg, big, sticky, e) ==
    LET n == BigBitLen(big) IN
        IF n = 0 THEN FloatZero
        ELSE IF n <= MantissaBits
        THEN [neg |-> neg, m |-> BigShl(big, MantissaBits - n), e |-> e - (MantissaBits - n)]
        ELSE LET d == n - MantissaBits
                 q == BigShr(big, d)
                 rem == BigSub(big, BigShl(q, d))
                 half == BigShl(<<1>>, d - 1)
                 c == BigCmp(rem, half)
                 up == c > 0 \/ (c = 0 /\ (sticky \/ BigOdd(q)))
                 r == IF up THEN BigAdd(q, <<1>>) ELSE q
             IN  IF BigBitLen(r) > MantissaBits
                 THEN [neg |-> neg, m |-> BigShr(r, 1), e |-> e + d + 1]
                 ELSE [neg |-> neg, m |-> r, e |-> e + d]

\* The double nearest to n / d, for integers n and 0 < d < 2^15 (a literal such as 1.01
\* is FloatDiv(101, 100); float(n) for an integer n is FloatDiv(n, 1))
FloatDiv(n, d) ==
    LET a == IF n < 0 THEN -n ELSE n
        scaled == BigDivSmall(BigShl(BigFromInt(a), 75), d)
    IN  RoundToDouble(n < 0, scaled[1], scaled[2] # 0, -75)

\* x / d for a double x and an integer 0 < d < 2^15
FloatDivSmall(x, d) ==
    LET scaled == BigDivSmall(BigShl(x.m, 30), d)
    IN  RoundToDouble(x.neg, scaled[1], scaled[2] # 0, x.e - 30)

\* x + y and x - y
FloatAdd(x, y) ==
    IF Len(x.m) = 0 THEN y
    ELSE IF Len(y.m) = 0 THEN x
    ELSE LET e == IF x.e < y.e THEN x.e ELSE y.e
             a == BigShl(x.m, x.e - e)
             b == BigShl(y.m, y.e - e)
         IN  IF x.neg = y.neg
             THEN RoundToDouble(x.neg, BigAdd(a, b), FALSE, e)
             ELSE IF BigCmp(a, b) >= 0
                  THEN RoundToDouble(x.neg, BigSub(a, b), FALSE, e)
                  ELSE RoundToDouble(y.neg, BigSub(b, a), FALSE, e)

FloatNeg(x) == IF Len(x.m) = 0 THEN x ELSE [x EXCEPT !.neg = ~x.neg]

FloatSub(x, y) == FloatAdd(x, FloatNeg(y))

\* x * y
FloatMul(x, y) ==
    IF Len(x.m) = 0 \/ Len(y.m) = 0 THEN FloatZero
    ELSE RoundToDouble(x.neg # y.neg, BigMul(x.m, y.m), FALSE, x.e + y.e)

\* x <= y
FloatLeq(x, y) ==
    LET lt == \* |x| compared with |y|
              IF Len(x.m) = 0 \/ Len(y.m) = 0
              THEN (IF Len(x.m) = 0 THEN (IF Len(y.m) = 0 THEN 0 ELSE -1) ELSE 1)
              ELSE IF x.e # y.e THEN (IF x.e < y.e THEN -1 ELSE 1)
              ELSE BigCmp(x.m, y.m)
        xneg == x.neg /\ Len(x.m) > 0
        yneg == y.neg /\ Len(y.m) > 0
    IN  IF xneg # yneg THEN xneg
        ELSE IF xneg THEN lt >= 0 ELSE lt <= 0

\* |x| * 100 truncated to an integer: the whole ticks in |x|
WholeTicks(x) ==
    IF Len(x.m) = 0 THEN 0
    ELSE BigToInt(IF x.e >= 0 THEN BigShl(BigMulSmall(x.m, 100), x.e)
                              ELSE BigShr(BigMulSmall(x.m, 100), -x.e))

\* --------------------------------------------------------------- quantizer
\* Mutant: quantize to the tick strictly below (in magnitude)
QuantizeStrictlyBelow(x) == IF x.neg THEN -(WholeTicks(x) + 1) ELSE WholeTicks(x) - 1

\* float(Decimal(str(x)).quantize(Decimal('0.01'), rounding=ROUND_DOWN)), in ticks.
\* str(x) is the shortest decimal that reads back as x: when a two-decimal number reads
\* back as x, str(x) is that number and nothing is cut off; otherwise ROUND_DOWN drops
\* the digits after the second decimal, toward zero.
QuantizeDown(x) ==
    LET k0 == WholeTicks(x)
        next == FloatDiv(k0 + 1, 100)
        k == IF next.m = x.m /\ next.e = x.e THEN k0 + 1 ELSE k0
    IN  IF x.neg THEN -k ELSE k

\* Mutant: BUY levels are priced like SELL levels
GridRawAscending(side, base_price, lv, pct) ==
    FloatMul(FloatDiv(base_price, 100),
             FloatAdd(FloatDiv(1, 1), FloatDivSmall(FloatDiv(lv * pct, 1), 100)))

\* price = base_price * (1 -/+ (level * grid_percentage / 100)) in float arithmetic;
\* base_price is given in ticks (the float base_price / 100), the result is a double
GridRaw(side, base_price, lv, pct) ==
    LET step == FloatDivSmall(FloatDiv(lv * pct, 1), 100)
        factor == IF side = "BUY" THEN FloatSub(FloatDiv(1, 1), step)
                                  ELSE FloatAdd(FloatDiv(1, 1), step)
    IN  FloatMul(FloatDiv(base_price, 100), factor)

\* The level's price, then quantized
GridPrice(side, base_price, lv, pct) == QuantizeDown(GridRaw(side, base_price, lv, pct))

\* ------------------------------------------------------------- operations
SingleOps == {"MARKET", "LIMIT", "STOP_LIMIT", "OCO"}
MultiOps == {"GRID", "TWAP"}
QueryOps == {"CANCEL", "STATUS", "OPEN_ORDERS", "PRICE", "BALANCE", "VALIDATE", "DISPLAY"}

\* if stop_limit_price is None: stop_limit_price = stop_price
\* Mutant: the caller's stop_limit_price is ignored
StopLimitAlwaysStopPrice(stop_limit_price, stop_price) == stop_price

StopLimitOrDefault(stop_limit_price, stop_price) ==
    IF stop_limit_price = <<>> THEN stop_price ELSE stop_limit_price[1]

\* The keyword arguments of the futures_create_order call each operation makes
\* for loop index lv
BuildRequest(o, it, lv) ==
    CASE o = "MARKET" ->
           [symbol |-> it.symbol, side |-> it.side, type |-> "MARKET",
            quantity |-> <<it.quantity, 1>>]
      [] o = "LIMIT" ->
           [symbol |-> it.symbol, side |-> it.side, type |-> "LIMIT",
            timeInForce |-> it.time_in_force, quantity |-> <<it.quantity, 1>>,
            price |-> it.price]
      [] o = "STOP_LIMIT" ->
           [symbol |-> it.symbol, side |-> it.side, type |-> "STOP_LIMIT",
            timeInForce |-> it.time_in_force, quantity |-> <<it.quantity, 1>>,
            price |-> it.price, stopPrice |-> it.stop_price]
      [] o = "OCO" ->
           [symbol |-> it.symbol, side |-> it.side, type |-> "LIMIT",
            timeInForce |-> "GTC", quantity |-> <<it.quantity, 1>>,
            price |-> it.price, stopPrice |-> it.stop_price,
            stopLimitPrice |-> StopLimitOrDefault(it.stop_limit_price, it.stop_price),
            stopLimitTimeInForce |-> "GTC"]
      [] o = "GRID" ->
           [symbol |-> it.symbol, side |-> it.side, type |-> "LIMIT",
            timeInForce |-> "GTC", quantity |-> <<it.quantity, it.levels>>,
            price |-> GridPrice(it.side, it.base_price, lv, it.grid_percentage)]
      [] o = "TWAP" ->
           [symbol |-> it.symbol, side |-> it.side, type |-> "MARKET",
            quantity |-> <<it.quantity, it.levels>>]

\* Mutant: the entry carries the loop index itself
HistoryEntryZeroBased(o, ord, it, lv) ==
    (CASE o \in {"MARKET", "LIMIT"} -> [order_type |-> o]
       [] o \in {"STOP_LIMIT", "OCO"} -> [order_type |-> o, stop_price |-> it.stop_price]
       [] o = "GRID" -> [order_type |-> o, grid_level |-> lv]
       [] o = "TWAP" -> [order_type |-> o, slice_number |-> lv]) @@ ord

\* The entry appended to order_history: {**order, "order_type": ..., ...}
HistoryEntry(o, ord, it, lv) ==
    (CASE o \in {"MARKET", "LIMIT"} -> [order_type |-> o]
       [] o \in {"STOP_LIMIT", "OCO"} -> [order_type |-> o, stop_price |-> it.stop_price]
       [] o = "GRID" -> [order_type |-> o, grid_level |-> lv + 1]
       [] o = "TWAP" -> [order_type |-> o, slice_number |-> lv + 1]) @@ ord

\* What the except clauses return: None for one order or a status query, [] for a
\* grid, a TWAP or the open-orders query, False for a cancellation
FailureValue(o) ==
    IF o \in MultiOps \cup {"OPEN_ORDERS", "BALANCE"} THEN <<>>
    ELSE IF o \in {"CANCEL", "VALIDATE"} THEN FALSE
    ELSE None

\* What a client call raises: an exchange rejection (BinanceAPIException), an order
\* error (BinanceOrderException) or a transport failure (requests' ConnectionError)
ExceptionKinds == {"BinanceAPIException", "BinanceOrderException", "ConnectionError"}

\* issubclass(exc, clause): every kind above derives from Exception
Catches(clause, exc) == clause = exc \/ clause = "Exception"

\* Mutant: the operations catch exchange rejections only
ExceptClausesApiOnly(o) == <<"BinanceAPIException">>

\* The except clauses of each operation, in order
ExceptClauses(o) ==
    CASE o \in {"MARKET", "LIMIT", "STOP_LIMIT"} ->
             <<"BinanceAPIException", "BinanceOrderException", "Exception">>
      [] o \in {"OCO", "CANCEL", "BALANCE"} -> <<"BinanceAPIException", "Exception">>
      [] OTHER -> <<"Exception">>

Caught(o, exc) ==
    \E i \in 1..Len(ExceptClauses(o)) : Catches(ExceptClauses(o)[i], exc)

\* An exception leaves the try block: the first matching clause logs and returns the
\* failure value; with no matching clause it propagates to the caller
Raise(o, exc) ==
    IF Caught(o, exc)
    THEN result' = FailureValue(o) /\ pc' = "done"
    ELSE pc' = "raised" /\ UNCHANGED result

Idle == pc = "idle"

\* Entering an operation: locals initialised, nothing sent yet
Enter(o, it) ==
    /\ op' = o
    /\ intent' = it
    /\ order' = None
    /\ placed' = <<>>
    /\ cancelRequested' = FALSE
    /\ ledger0' = [orders |-> orders, order_history |-> order_history]
    /\ UNCHANGED <<orders, order_history, nextId>>

\* self.client.futures_create_order(...) is called for loop index lv
Submit(o, it, lv, tr) ==
    /\ level' = lv
    /\ pc' = "call"
    /\ trace' = Append(tr, [ev |-> "create", level |-> lv, req |-> BuildRequest(o, it, lv)])

Init ==
    /\ orders = <<>>
    /\ order_history = <<>>
    /\ op = "none"
    /\ pc = "idle"
    /\ intent = <<>>
    /\ level = 0
    /\ order = None
    /\ placed = <<>>
    /\ result = None
    /\ nextId = [s \in ExchangeSymbols |-> 1]
    /\ cancelRequested = FALSE
    /\ trace = <<>>
    /\ ledger0 = <<>>

\* A caller places orders while the ledger holds fewer than MaxHistory entries (the
\* queries go on after that)
LedgerHasRoom == Len(order_history) < MaxHistory

PlaceSingle(o, it) ==
    /\ Idle
    /\ LedgerHasRoom
    /\ Enter(o, it)
    /\ Submit(o, it, 0, <<>>)
    /\ UNCHANGED result

place_market_order ==
    \E symbol \in RawSymbols, side \in Sides, quantity \in Quantities :
        PlaceSingle("MARKET",
            [symbol |-> CleanSymbol(symbol), side |-> side, quantity |-> quantity])

place_limit_order ==
    \E symbol \in RawSymbols, side \in Sides, quantity \in Quantities, price \in Prices :
        PlaceSingle("LIMIT",
            [symbol |-> CleanSymbol(symbol), side |-> side, quantity |-> quantity,
             price |-> price, time_in_force |-> "GTC"])

place_stop_limit_order ==
    \E symbol \in RawSymbols, side \in Sides, quantity \in Quantities, price \in Prices,
       stop_price \in Prices :
        PlaceSingle("STOP_LIMIT",
            [symbol |-> CleanSymbol(symbol), side |-> side, quantity |-> quantity,
             price |-> price, stop_price |-> stop_price, time_in_force |-> "GTC"])

place_oco_order ==
    \E symbol \in RawSymbols, side \in Sides, quantity \in Quantities, price \in Prices,
       stop_price \in Prices, stop_limit_price \in StopLimitPrices :
        PlaceSingle("OCO",
            [symbol |-> CleanSymbol(symbol), side |-> side, quantity |-> quantity,
             price |-> price, stop_price |-> stop_price,
             stop_limit_price |-> stop_limit_price])

\* Entry of place_grid_order / place_twap_order up to the first exchange call:
\* quantity / 0 raises ZeroDivisionError (caught, [] returned); range(n) is empty for n < 0
\* Mutant: the loop starts at index 1
PlaceMultiFromLevelOne(o, it) ==
    /\ Idle
    /\ Enter(o, it)
    /\ IF it.levels >= 1
       THEN Submit(o, it, 1, <<>>) /\ UNCHANGED result
       ELSE /\ pc' = "done" /\ result' = <<>>
            /\ level' = 0
            /\ trace' = <<>>

PlaceMulti(o, it) ==
    /\ Idle
    /\ Enter(o, it)
    /\ IF it.levels >= 1
       THEN Submit(o, it, 0, <<>>) /\ UNCHANGED result
       ELSE /\ IF it.levels = 0
               THEN Raise(o, "ZeroDivisionError")
               ELSE pc' = "done" /\ result' = <<>>
            /\ level' = 0
            /\ trace' = <<>>

place_grid_order ==
    \E symbol \in RawSymbols, side \in Sides, quantity \in Quantities,
       base_price \in BasePrices, grid_levels \in LevelCounts,
       grid_percentage \in GridPercentages :
        LedgerHasRoom /\ PlaceMulti("GRID",
            [symbol |-> CleanSymbol(symbol), side |-> side, quantity |-> quantity,
             base_price |-> base_price, levels |-> grid_levels,
             grid_percentage |-> grid_percentage])

place_twap_order ==
    \E symbol \in RawSymbols, side \in Sides, total_quantity \in Quantities,
       num_slices \in LevelCounts, time_interval \in Intervals :
        LedgerHasRoom /\ PlaceMulti("TWAP",
            [symbol |-> CleanSymbol(symbol), side |-> side, quantity |-> total_quantity,
             levels |-> num_slices, time_interval |-> time_interval])

CurrentRequest == trace[Len(trace)].req

\* futures_create_order returns an order (the exchange accepts while the ledger holds
\* fewer than cap entries)
CreateOrderOkWithin(cap) ==
    /\ pc = "call"
    /\ ExchangeAccepts(CurrentRequest)
    /\ Len(order_history) < cap
    /\ order' = Response(CurrentRequest)
    /\ nextId' = [nextId EXCEPT ![CurrentRequest.symbol] = @ + 1]
    /\ trace' = Append(trace, [ev |-> "ok", level |-> level])
    /\ pc' = "record_index"
    /\ UNCHANGED <<orders, order_history, op, intent, level, placed, result, cancelRequested,
                   ledger0>>

CreateOrderOk == CreateOrderOkWithin(MaxHistory)

\* Mutant: a failed level or slice is logged and skipped, the loop goes on
CreateOrderFailSkip ==
    /\ pc = "call"
    /\ IF op \in MultiOps /\ level + 1 < intent.levels
       THEN /\ Submit(op, intent, level + 1, Append(trace, [ev |-> "fail", level |-> level]))
            /\ UNCHANGED result
       ELSE /\ trace' = Append(trace, [ev |-> "fail", level |-> level])
            /\ result' = IF op \in MultiOps THEN placed ELSE None
            /\ pc' = "done"
            /\ UNCHANGED level
    /\ UNCHANGED <<orders, order_history, op, intent, order, placed, nextId,
                   cancelRequested, ledger0>>

\* Mutant: a failed call is retried once more
CreateOrderFailRetry ==
    /\ pc = "call"
    /\ Submit(op, intent, level, Append(trace, [ev |-> "fail", level |-> level]))
    /\ UNCHANGED <<orders, order_history, op, intent, order, placed, result, nextId,
                   cancelRequested, ledger0>>

\* Mutant: the except clause also records the rejected request in the ledger
CreateOrderFailRecorded ==
    /\ pc = "call"
    /\ trace' = Append(trace, [ev |-> "fail", level |-> level])
    /\ \E exc \in ExceptionKinds : Raise(op, exc)
    /\ order_history' = Append(order_history,
           [order_type |-> op, orderId |-> 0, symbol |-> CurrentRequest.symbol,
            type |-> CurrentRequest.type, status |-> "REJECTED"])
    /\ orders' = (0 :> [orderId |-> 0, symbol |-> CurrentRequest.symbol,
                        type |-> CurrentRequest.type, status |-> "REJECTED"]) @@ orders
    /\ UNCHANGED <<op, intent, level, order, placed, nextId, cancelRequested, ledger0>>

\* futures_create_order raises; the except clause logs and returns None / []
CreateOrderFail ==
    /\ pc = "call"
    /\ trace' = Append(trace, [ev |-> "fail", level |-> level])
    /\ \E exc \in ExceptionKinds : Raise(op, exc)
    /\ UNCHANGED <<orders, order_history, op, intent, level, order, placed, nextId,
                   cancelRequested, ledger0>>

\* self.orders[order["orderId"]] = order
RecordIndex ==
    /\ pc = "record_index"
    /\ orders' = (order.orderId :> order) @@ orders
    /\ pc' = "record_history"
    /\ UNCHANGED <<order_history, op, intent, level, order, placed, result, nextId,
                   cancelRequested, trace, ledger0>>

\* Mutant: the wait also follows the last slice
SleepsAfterEverySlice(lv, n) == lv < n

\* if slice_num < num_slices - 1: time.sleep(time_interval)
SleepsAfter(lv, n) == lv < n - 1

\* Mutant: the newest entry is put first (insert(0, ...))
RecordHistoryNewestFirst ==
    /\ pc = "record_history"
    /\ order_history' = <<HistoryEntry(op, order, intent, level)>> \o order_history
    /\ UNCHANGED <<orders, op, intent, order, nextId, cancelRequested, ledger0>>
    /\ IF op \in SingleOps
       THEN /\ result' = order
            /\ pc' = "done"
            /\ UNCHANGED <<level, placed, trace>>
       ELSE /\ placed' = Append(placed, order)
            /\ IF op = "TWAP" /\ SleepsAfter(level, intent.levels)
               THEN /\ pc' = "sleep"
                    /\ UNCHANGED <<level, result, trace>>
               ELSE IF level + 1 < intent.levels
                    THEN Submit(op, intent, level + 1, trace) /\ UNCHANGED result
                    ELSE /\ result' = placed'
                         /\ pc' = "done"
                         /\ UNCHANGED <<level, trace>>

\* Mutant: the order is indexed and returned but never appended to order_history
RecordHistoryNoAppend ==
    /\ pc = "record_history"
    /\ UNCHANGED <<orders, order_history, op, intent, order, nextId, cancelRequested, ledger0>>
    /\ IF op \in SingleOps
       THEN /\ result' = order
            /\ pc' = "done"
            /\ UNCHANGED <<level, placed, trace>>
       ELSE /\ placed' = Append(placed, order)
            /\ IF level + 1 < intent.levels
               THEN Submit(op, intent, level + 1, trace) /\ UNCHANGED result
               ELSE /\ result' = placed'
                    /\ pc' = "done"
                    /\ UNCHANGED <<level, trace>>

\* self.order_history.append({...}); then return order, or orders.append(order) and
\* the rest of the loop body
RecordHistory ==
    /\ pc = "record_history"
    /\ order_history' = Append(order_history, HistoryEntry(op, order, intent, level))
    /\ UNCHANGED <<orders, op, intent, order, nextId, cancelRequested, ledger0>>
    /\ IF op \in SingleOps
       THEN /\ result' = order
            /\ pc' = "done"
            /\ UNCHANGED <<level, placed, trace>>
       ELSE /\ placed' = Append(placed, order)
            /\ IF op = "TWAP" /\ SleepsAfter(level, intent.levels)
               THEN /\ pc' = "sleep"
                    /\ UNCHANGED <<level, result, trace>>
               ELSE IF level + 1 < intent.levels
                    THEN Submit(op, intent, level + 1, trace) /\ UNCHANGED result
                    ELSE /\ result' = placed'
                         /\ pc' = "done"
                         /\ UNCHANGED <<level, trace>>

\* Mutant: time.sleep blocks for ever
SleepNeverReturns == pc = "sleep" /\ UNCHANGED vars

\* time.sleep(time_interval) returns; the loop goes on with the next slice
SleepReturns ==
    /\ pc = "sleep"
    /\ IF level + 1 < intent.levels
       THEN Submit(op, intent, level + 1, Append(trace, [ev |-> "sleep", level |-> level]))
            /\ UNCHANGED result
       ELSE /\ result' = placed
            /\ pc' = "done"
            /\ trace' = Append(trace, [ev |-> "sleep", level |-> level])
            /\ UNCHANGED level
    /\ UNCHANGED <<orders, order_history, op, intent, order, placed, nextId, cancelRequested,
                   ledger0>>

\* One client call made by cancel_order / get_order_status / get_open_orders, with its
\* outcome: the value the call returns (ok) or the exception it raises
Query(o, it, call, value) ==
    /\ Idle
    /\ Enter(o, it)
    /\ level' = 0
    /\ \/ /\ trace' = <<[ev |-> call, level |-> 0, req |-> it], [ev |-> "ok", level |-> 0]>>
          /\ result' = value
          /\ pc' = "done"
       \/ /\ trace' = <<[ev |-> call, level |-> 0, req |-> it], [ev |-> "fail", level |-> 0]>>
          /\ \E exc \in ExceptionKinds : Raise(o, exc)

\* get_current_price: futures_symbol_ticker(symbol=clean_symbol), then float(ticker["price"]);
\* None from the except clause
GetCurrentPrice(symbol) ==
    /\ Idle
    /\ Enter("PRICE", [symbol |-> symbol])
    /\ level' = 0
    /\ LET req == [symbol |-> CleanSymbol(symbol)] IN
           \/ /\ trace' = <<[ev |-> "get_ticker", level |-> 0, req |-> req],
                             [ev |-> "ok", level |-> 0]>>
              /\ result' = [price |-> 1]           \* the float, boxed
              /\ pc' = "done"
           \/ /\ trace' = <<[ev |-> "get_ticker", level |-> 0, req |-> req],
                             [ev |-> "fail", level |-> 0]>>
              /\ \E exc \in ExceptionKinds : Raise("PRICE", exc)

get_current_price == \E symbol \in RawSymbols : GetCurrentPrice(symbol)

\* Mutant: a successful cancellation also rewrites the status of the ledger's entries
CancelOrderMarksLedger ==
    \E symbol \in RawSymbols, order_id \in OrderIds :
        /\ Idle
        /\ op' = "CANCEL"
        /\ intent' = [symbol |-> CleanSymbol(symbol), orderId |-> order_id]
        /\ ledger0' = [orders |-> orders, order_history |-> order_history]
        /\ order_history' =
               [i \in 1..Len(order_history) |->
                   IF order_history[i].orderId = order_id
                   THEN [order_history[i] EXCEPT !.status = "CANCELED"]
                   ELSE order_history[i]]
        /\ orders' =
               [id \in DOMAIN orders |->
                   IF id = order_id THEN [orders[id] EXCEPT !.status = "CANCELED"]
                   ELSE orders[id]]
        /\ trace' = <<[ev |-> "cancel", level |-> 0,
                       req |-> [symbol |-> CleanSymbol(symbol), orderId |-> order_id]],
                      [ev |-> "ok", level |-> 0]>>
        /\ result' = TRUE
        /\ pc' = "done"
        /\ UNCHANGED <<level, order, placed, nextId, cancelRequested>>

\* cancel_order: futures_cancel_order, then return True; False from the except clauses
cancel_order ==
    \E symbol \in RawSymbols, order_id \in OrderIds :
        Query("CANCEL", [symbol |-> CleanSymbol(symbol), orderId |-> order_id],
              "cancel", TRUE)

\* The exchange's answer to futures_get_order
StatusAnswers(req) ==
    {[orderId |-> req.orderId, symbol |-> req.symbol, status |-> st] :
        st \in {"NEW", "CANCELED"}}

\* Mutant: get_order_status stores the order it fetched in the index
GetOrderStatusSyncsIndex ==
    \E symbol \in RawSymbols, order_id \in OrderIds :
        LET req == [symbol |-> CleanSymbol(symbol), orderId |-> order_id] IN
            \E answer \in StatusAnswers(req) :
                /\ Idle
                /\ op' = "STATUS"
                /\ intent' = req
                /\ ledger0' = [orders |-> orders, order_history |-> order_history]
                /\ orders' = (order_id :> answer) @@ orders
                /\ trace' = <<[ev |-> "get_order", level |-> 0, req |-> req],
                              [ev |-> "ok", level |-> 0]>>
                /\ result' = answer
                /\ pc' = "done"
                /\ UNCHANGED <<order_history, level, order, placed, nextId, cancelRequested>>

\* get_order_status: futures_get_order, the order returned as is; None on failure
get_order_status ==
    \E symbol \in RawSymbols, order_id \in OrderIds :
        LET req == [symbol |-> CleanSymbol(symbol), orderId |-> order_id] IN
            \E answer \in StatusAnswers(req) : Query("STATUS", req, "get_order", answer)

\* The exchange's answer to futures_get_open_orders
OpenOrdersAnswers(req) ==
    {<<>>, <<[orderId |-> 1, symbol |-> "BTCUSDT", status |-> "NEW"]>>}

\* get_open_orders: with a truthy symbol the call is made for clean_symbol, otherwise
\* for all symbols; [] on failure
get_open_orders ==
    \E symbol \in OptionalSymbols :
        LET req == IF symbol # "" THEN [symbol |-> CleanSymbol(symbol)] ELSE <<>> IN
            \E answer \in OpenOrdersAnswers(req) :
                Query("OPEN_ORDERS", req, "get_open_orders", answer)

\* get_account_balance: futures_account, four floats derived from it; {} on failure
get_account_balance ==
    Query("BALANCE", <<>>, "get_account",
          [total_wallet_balance |-> 1, available_balance |-> 1, used_balance |-> 0,
           margin_level |-> 0])

\* validate_symbol: clean_symbol is computed and logged, futures_exchange_info() is
\* called without it; True, or False on failure
validate_symbol ==
    \E symbol \in RawSymbols :
        /\ Idle
        /\ Enter("VALIDATE", [symbol |-> symbol])
        /\ level' = 0
        /\ \/ /\ trace' = <<[ev |-> "get_exchange_info", level |-> 0, req |-> <<>>],
                             [ev |-> "ok", level |-> 0]>>
              /\ result' = TRUE
              /\ pc' = "done"
           \/ /\ trace' = <<[ev |-> "get_exchange_info", level |-> 0, req |-> <<>>],
                             [ev |-> "fail", level |-> 0]>>
              /\ \E exc \in ExceptionKinds : Raise("VALIDATE", exc)

\* display_order_history: one block printed per entry of order_history, front to back
\* (idx counts from 1); nothing is printed per entry when the history is empty
display_order_history ==
    /\ Idle
    /\ Enter("DISPLAY", <<>>)
    /\ level' = 0
    /\ trace' = [idx \in 1..Len(order_history) |->
                    [ev |-> "print", level |-> idx,
                     req |-> [orderId |-> order_history[idx].orderId,
                              symbol |-> order_history[idx].symbol,
                              order_type |-> order_history[idx].order_type,
                              status |-> order_history[idx].status]]]
    /\ result' = None
    /\ pc' = "done"

\* The user asks to abort the running TWAP; place_twap_order takes no such signal
SignalCancel ==
    /\ op = "TWAP"
    /\ pc \in {"call", "record_index", "record_history", "sleep"}
    /\ ~cancelRequested
    /\ cancelRequested' = TRUE
    /\ UNCHANGED <<orders, order_history, op, pc, intent, level, order, placed, result,
                   nextId, trace, ledger0>>

\* The caller (a TradingBotCLI handler) has used the returned value and is back in
\* the menu loop; the operation's arguments and locals are gone
HandlerReturns ==
    /\ pc = "done"
    /\ pc' = "idle"
    /\ op' = "none"
    /\ intent' = <<>>
    /\ level' = 0
    /\ order' = None
    /\ placed' = <<>>
    /\ result' = None
    /\ cancelRequested' = FALSE
    /\ trace' = <<>>
    /\ ledger0' = <<>>
    /\ UNCHANGED <<orders, order_history, nextId>>

Next ==
    \/ place_market_order
    \/ place_limit_order
    \/ place_stop_limit_order
    \/ place_oco_order
    \/ place_grid_order
    \/ place_twap_order
    \/ CreateOrderOk
    \/ CreateOrderFail
    \/ RecordIndex
    \/ RecordHistory
    \/ SleepReturns
    \/ cancel_order
    \/ get_order_status
    \/ get_open_orders
    \/ get_current_price
    \/ get_account_balance
    \/ validate_symbol
    \/ display_order_history
    \/ SignalCancel
    \/ HandlerReturns

Spec == Init /\ [][Next]_vars

\* The symbol normalizer on its own: price lookups over every spelling in SymbolInputs
LookupAnySymbol == \E symbol \in SymbolInputs : GetCurrentPrice(symbol)

NextSymbol ==
    \/ LookupAnySymbol
    \/ HandlerReturns

SpecSymbol == Init /\ [][NextSymbol]_vars

\* place_twap_order on its own, with an exchange whose calls return or raise and a
\* clock whose sleeps end: the program's own steps are taken (it has one thread and no
\* blocking statement but the call and the sleep)
NextTwap ==
    \/ place_twap_order
    \/ CreateOrderOk
    \/ CreateOrderFail
    \/ RecordIndex
    \/ RecordHistory
    \/ SleepReturns
    \/ SignalCancel
    \/ HandlerReturns

LiveTwap ==
    /\ Init /\ [][NextTwap]_vars
    /\ WF_vars(CreateOrderOk \/ CreateOrderFail)
    /\ WF_vars(RecordIndex)
    /\ WF_vars(RecordHistory)
    /\ WF_vars(SleepReturns)

\* The grid price computation on its own: place_grid_order over GridBasePrices and
\* GridSpreads, with the exchange's answers
PlaceAnyGrid ==
    \E side \in Sides, base_price \in GridBasePrices, grid_levels \in 1..MaxLevels,
       grid_percentage \in GridSpreads :
        PlaceMulti("GRID",
            [symbol |-> CleanSymbol("BTC"), side |-> side, quantity |-> 1,
             base_price |-> base_price, levels |-> grid_levels,
             grid_percentage |-> grid_percentage])

NextGrid ==
    \/ PlaceAnyGrid
    \/ CreateOrderOk
    \/ CreateOrderFail
    \/ RecordIndex
    \/ RecordHistory
    \/ HandlerReturns

SpecGrid == Init /\ [][NextGrid]_vars

\* Whole grid plans: place_grid_order with up to MaxPlanLevels levels, followed through
\* every level
PlaceGridPlan ==
    \E side \in Sides, base_price \in PlanBasePrices, grid_levels \in 1..MaxPlanLevels,
       grid_percentage \in PlanSpreads :
        PlaceMulti("GRID",
            [symbol |-> CleanSymbol("BTC"), side |-> side, quantity |-> 1,
             base_price |-> base_price, levels |-> grid_levels,
             grid_percentage |-> grid_percentage])

CreateOrderOkInPlan == CreateOrderOkWithin(MaxPlanHistory)

NextGridPlan ==
    \/ PlaceGridPlan
    \/ CreateOrderOkInPlan
    \/ CreateOrderFail
    \/ RecordIndex
    \/ RecordHistory
    \/ HandlerReturns

SpecGridPlan == Init /\ [][NextGridPlan]_vars

TypeOK ==
    /\ pc \in {"idle", "call", "record_index", "record_history", "sleep", "done"}
    /\ op \in SingleOps \cup MultiOps \cup QueryOps \cup {"none"}
    /\ Len(order_history) <= MaxPlanHistory

\* ------------------------------------------------------ reading the trace
IsCreate(e) == e.ev = "create"
IsOk(e) == e.ev = "ok"
Creates == SelectSeq(trace, IsCreate)
NumCreates == Len(Creates)
NumOk == Len(SelectSeq(trace, IsOk))
Failed == Len(trace) > 0 /\ trace[Len(trace)].ev = "fail"
NewEntries == Len(order_history) - Len(ledger0.order_history)
Running == op # "none"

\* ------------------------------------------------------------------ claims

C2_ResultHoldsEverySuccess ==
    (op = "GRID" /\ pc = "done") => Len(result) = NumOk

\* C3: in place_twap_order, once CreateOrder has failed on slice k no later slice is
\* submitted and the run records no further ledger entry: the run has ended with k
\* submissions and the k-1 entries of the slices before it.
C3_TwapStopsAtFailure ==
    op = "TWAP" =>
        \A i \in 1..Len(trace) :
            trace[i].ev = "fail" =>
                /\ i = Len(trace)
                /\ pc = "done"
                /\ NumCreates = trace[i].level + 1
                /\ NewEntries = trace[i].level
                /\ \A j \in 1..NumCreates : Creates[j].level < trace[i].level + 1

\* C3 witness: slice 2 of a 3-slice TWAP failed: one entry recorded, slice 3 never submitted
C3_Witness ==
    /\ op = "TWAP" /\ pc = "done" /\ intent.levels = 3
    /\ Failed /\ trace[Len(trace)].level = 1
    /\ NewEntries = 1 /\ NumCreates = 2

\* C4: when place_twap_order stops because a slice failed, the caller receives the
\* orders of the slices placed before it.
C4_PartialResultsReturned ==
    (op = "TWAP" /\ pc = "done" /\ Failed) => result = placed

\* C5: place_twap_order submits its slices in order 1..N; every submission after the
\* first directly follows a completed sleep that followed the previous slice, and the
\* run never sleeps after slice N.
C5_TwapOrderedAndPaced ==
    op = "TWAP" =>
        /\ \A j \in 1..NumCreates : Creates[j].level = j - 1
        /\ \A i \in 1..Len(trace) :
               (trace[i].ev = "create" /\ trace[i].level > 0) =>
                   /\ i > 2
                   /\ trace[i - 1] = [ev |-> "sleep", level |-> trace[i].level - 1]
                   /\ trace[i - 2] = [ev |-> "ok", level |-> trace[i].level - 1]
        /\ \A i \in 1..Len(trace) :
               trace[i].ev = "sleep" => trace[i].level < intent.levels - 1
        /\ pc = "sleep" => level < intent.levels - 1

\* C5 witness: a 2-slice TWAP has completed: two submissions with one sleep between them
C5_Witness ==
    /\ op = "TWAP" /\ pc = "done" /\ intent.levels = 2
    /\ ~Failed /\ NumCreates = 2
    /\ \E i \in 1..Len(trace) : trace[i].ev = "sleep"

\* C6: once cancellation of a running place_twap_order has been signalled, no further
\* slice is submitted: the signal is honoured before each submission and during the
\* inter-slice wait.
C6_CancelStopsTwap ==
    [][(op = "TWAP" /\ cancelRequested) => NumCreates' <= NumCreates]_vars

\* The validation rules of the placement operations: quantity > 0; price > 0 for Limit
\* and Stop-Limit; stopPrice > 0 for Stop-Limit; level / slice count >= 1
ValidIntent(o, it) ==
    /\ it.quantity > 0
    /\ o \in {"LIMIT", "STOP_LIMIT"} => it.price > 0
    /\ o = "STOP_LIMIT" => it.stop_price > 0
    /\ o \in MultiOps => it.levels >= 1

\* C7: a placement operation whose intent is invalid makes no CreateOrder call.
C7_InvalidIntentMakesNoCall ==
    (op \in SingleOps \cup MultiOps /\ ~ValidIntent(op, intent)) => NumCreates = 0

\* C8: a single-order operation that has returned after a successful submission has
\* appended exactly one entry, the returned order's, to order_history and indexed it;
\* one that has returned after a failed submission returns None and has left orders
\* and order_history as they were.
C8_SingleOrderLedgerEffect ==
    (op \in SingleOps /\ pc = "done") =>
        IF Failed
        THEN /\ result = None
             /\ orders = ledger0.orders
             /\ order_history = ledger0.order_history
        ELSE /\ result = order
             /\ result # None
             /\ order_history =
                    Append(ledger0.order_history, HistoryEntry(op, result, intent, 0))
             /\ order_history[Len(order_history)].orderId = result.orderId
             /\ result.orderId \in DOMAIN orders
             /\ orders[result.orderId] = result
             /\ \A id \in DOMAIN ledger0.orders \ {result.orderId} :
                    id \in DOMAIN orders /\ orders[id] = ledger0.orders[id]

\* C8 witness: a single-order operation has returned its order with the ledger
\* already holding an earlier entry
C8_Witness ==
    /\ op \in SingleOps /\ pc = "done" /\ ~Failed
    /\ Len(ledger0.order_history) = 1
    /\ Len(order_history) = 2

\* C9: no retries: a single-order operation makes at most one CreateOrder call, and a
\* grid or TWAP of N units makes at most one call per level / slice, N at most in all
\* (none when N is not positive).
C9_NoRetries ==
    /\ op \in SingleOps => NumCreates <= 1
    /\ op \in MultiOps =>
           /\ NumCreates <= (IF intent.levels >= 0 THEN intent.levels ELSE 0)
           /\ \A j, k \in 1..NumCreates :
                  Creates[j].level = Creates[k].level => j = k
           /\ \A j \in 1..NumCreates : Creates[j].level \in 0..(intent.levels - 1)

\* C9 witness: a single-order operation and a grid have each returned after a failed
\* call that was not repeated
C9_Witness ==
    /\ pc = "done" /\ Failed
    /\ \/ op \in SingleOps /\ NumCreates = 1
       \/ op = "GRID" /\ intent.levels = 3 /\ NumCreates = 2

\* C10: the ledger is append-only: no step changes or removes an entry of order_history
\* or of the orders index, also when the exchange returns an orderId already recorded.
C10_LedgerAppendOnly ==
    [][/\ Len(order_history') >= Len(order_history)
       /\ SubSeq(order_history', 1, Len(order_history)) = order_history
       /\ \A id \in DOMAIN orders : id \in DOMAIN orders' /\ orders'[id] = orders[id]]_vars

\* The fields of entry e that came from the exchange's order o (the entry is the order
\* plus order_type and the level / slice / stop_price metadata)
OrderPart(e, o) == [f \in DOMAIN o |-> e[f]]
HistoryIds == {order_history[i].orderId : i \in 1..Len(order_history)}
Quiescent == pc \in {"idle", "done"}

\* C11: between operations, an orderId is found in the index exactly when an entry with
\* that id was recorded, and looking up the orderId of any recorded entry returns the
\* order stored in that entry of the history.
C11_IndexAgreesWithHistory ==
    Quiescent =>
        /\ DOMAIN orders = HistoryIds
        /\ \A i \in 1..Len(order_history) :
               LET e == order_history[i] IN
                   /\ e.orderId \in DOMAIN orders
                   /\ OrderPart(e, orders[e.orderId]) = orders[e.orderId]

\* C12: cancel_order, whether it returns True or False, leaves orders and order_history
\* as they were: the entry of the cancelled order stays, with the status recorded at
\* submission.
C12_CancelLeavesLedger ==
    (op = "CANCEL" /\ pc = "done") =>
        /\ orders = ledger0.orders
        /\ order_history = ledger0.order_history
        /\ \A i \in 1..Len(order_history) : order_history[i].status = "NEW"
        /\ \A id \in DOMAIN orders : orders[id].status = "NEW"

\* C12 witness: the cancellation of an order that the ledger holds has returned True
C12_Witness ==
    /\ op = "CANCEL" /\ pc = "done" /\ result = TRUE
    /\ \E i \in 1..Len(order_history) :
           /\ order_history[i].orderId = intent.orderId
           /\ order_history[i].symbol = intent.symbol
           /\ order_history[i].status = "NEW"

\* C13: at every moment at which a concurrent reader may look, the orderId index and the
\* history hold the same orders (none is present in one and not yet in the other).
C13_NoTornLedger == DOMAIN orders = HistoryIds

\* C14: no caller-facing operation lets an exchange rejection or a transport failure
\* escape: after a failed client call the operation has returned its failure value
\* (None, [] or False).
C14_NoFaultEscapes ==
    /\ pc # "raised"
    /\ (pc = "done" /\ Failed) =>
           CASE op \in SingleOps \cup {"STATUS", "PRICE"} -> result = None
             [] op \in MultiOps \cup {"OPEN_ORDERS", "BALANCE"} -> result = <<>>
             [] op \in {"CANCEL", "VALIDATE"} -> result = FALSE

\* C14 witness: get_order_status has returned None after its client call failed
C14_Witness ==
    /\ op = "STATUS" /\ pc = "done" /\ Failed
    /\ result = None

\* The normalization the specification describes: uppercase, strip one trailing "USDT",
\* append "USDT"
EndsWith(s, suffix) ==
    /\ Len(s) >= Len(suffix)
    /\ SubSeq(s, Len(s) - Len(suffix) + 1, Len(s)) = suffix

StripTrailing(s, suffix) ==
    IF EndsWith(s, suffix) THEN SubSeq(s, 1, Len(s) - Len(suffix)) ELSE s

DescribedNormalize(s) == StripTrailing(Upper(s), "USDT") \o "USDT"

\* C15: the symbol sent to the exchange is the input uppercased, with a trailing "USDT"
\* stripped whatever its case, and "USDT" appended; "btc", "BTC", "BTCUSDT" and "btcusdt"
\* are all sent as "BTCUSDT".
C15_NormalizesAnyCase ==
    (op = "PRICE" /\ pc = "done") =>
        /\ intent.symbol \in {"btc", "BTC", "BTCUSDT", "btcusdt"}
               => trace[1].req.symbol = "BTCUSDT"
        /\ EndsWith(Upper(intent.symbol), "USDT") /\ ~EndsWith(Upper(intent.symbol), "USDTUSDT")
               => trace[1].req.symbol = DescribedNormalize(intent.symbol)

\* C16: place_oco_order submits a single request; without a stop_limit_price its
\* stopLimitPrice equals its stopPrice, and a given stop_limit_price is submitted unchanged.
C16_OcoStopLimitDefault ==
    (op = "OCO" /\ NumCreates >= 1) =>
        /\ NumCreates = 1
        /\ LET req == trace[1].req IN
               /\ req.stopPrice = intent.stop_price
               /\ IF intent.stop_limit_price = <<>>
                  THEN req.stopLimitPrice = req.stopPrice
                  ELSE req.stopLimitPrice = intent.stop_limit_price[1]

\* C16 witness: an OCO order placed without stop_limit_price went out with the stop price
\* 1 in both fields and has returned
C16_Witness ==
    /\ op = "OCO" /\ pc = "done" /\ NumCreates = 1
    /\ intent.stop_limit_price = <<>>
    /\ intent.stop_price = 1
    /\ trace[1].req.stopLimitPrice = 1

MonotoneGridPrices ==
    \A j, k \in 1..NumCreates :
        j < k =>
            IF intent.side = "BUY"
            THEN Creates[k].req.price <= Creates[j].req.price
            ELSE Creates[k].req.price >= Creates[j].req.price

\* C18 (as stated): for every grid input with quantity > 0 and N >= 1 levels the
\* quantized prices submitted are monotone in level index.
C18_MonotoneForValidInput ==
    (op = "GRID" /\ ValidIntent("GRID", intent)) => MonotoneGridPrices

\* C18 (amended): for every grid input with base_price >= 0 and grid_percentage >= 0 the
\* quantized prices submitted are monotone in level index: non-increasing for BUY,
\* non-decreasing for SELL.
C18_MonotoneGridPrices ==
    (op = "GRID" /\ intent.base_price >= 0 /\ intent.grid_percentage >= 0) =>
        MonotoneGridPrices

\* C18 witness: a BUY grid from 1.01 with a 2% spread has submitted two levels, the second
\* priced strictly below the first after quantization (1.01, then 0.98)
C18_Witness ==
    /\ op = "GRID" /\ intent.side = "BUY"
    /\ intent.base_price = 101 /\ intent.grid_percentage = 2
    /\ NumCreates >= 2
    /\ Creates[1].req.price = 101
    /\ Creates[2].req.price = 98

\* C19: every price submitted by place_grid_order is a whole number of ticks of 0.01 that
\* is not above the computed price base_price * (1 -/+ level * grid_percentage / 100),
\* negative computed prices included.
C19_NeverRoundsUp ==
    op = "GRID" =>
        \A j \in 1..NumCreates :
            LET p == GridRaw(intent.side, intent.base_price, Creates[j].level,
                             intent.grid_percentage)
                q == Creates[j].req.price
            IN  q \in Int /\ FloatLeq(FloatDiv(q, 100), p)

\* C20: quantizing a submitted (already quantized) grid price again with the tick 0.01
\* returns it unchanged.
C20_QuantizeIdempotent ==
    op = "GRID" =>
        \A j \in 1..NumCreates :
            QuantizeDown(FloatDiv(Creates[j].req.price, 100)) = Creates[j].req.price

\* C20 witness: a price that quantization changed has been submitted, a negative one
\* (1.01 * (1 - 1.2) = -0.20199999999999996 became -0.20)
C20_Witness ==
    /\ op = "GRID" /\ intent.base_price = 101
    /\ \E j \in 1..NumCreates :
           /\ GridRaw(intent.side, intent.base_price, Creates[j].level,
                      intent.grid_percentage) # FloatDiv(-20, 100)
           /\ Creates[j].req.price = -20

\* C21: every request of a BUY grid carries the price quantize(base_price * (1 - i * P /
\* 100)) for its level index i, computed exactly, and the quantity quantity / N; the grid
\* ("BTC", BUY, 1.0, 50000, levels = 5, percentage = 2.0) submits 50000.00, 49000.00,
\* 48000.00, 47000.00 and 46000.00, each with quantity 1/5.
C21_GridLevelPrices ==
    (op = "GRID" /\ intent.side = "BUY") =>
        \A j \in 1..NumCreates :
            LET i == Creates[j].level
                req == Creates[j].req
            IN  /\ req.price = (intent.base_price * (100 - i * intent.grid_percentage)) \div 100
                /\ req.quantity = <<intent.quantity, intent.levels>>
                /\ (intent.base_price = 5000000 /\ intent.grid_percentage = 2
                        /\ intent.levels = 5)
                       => /\ req.price = 5000000 - 100000 * i
                          /\ req.quantity = <<1, 5>>

\* The scenario of C21 on its own: the five prices of the 50000 / 2% / 5-level BUY grid
ScenarioPrices ==
    (op = "GRID" /\ intent.side = "BUY" /\ intent.base_price = 5000000
        /\ intent.grid_percentage = 2) =>
        \A j \in 1..NumCreates : Creates[j].req.price = 5000000 - 100000 * (j - 1)

ScenarioCompleted ==
    /\ op = "GRID" /\ intent.side = "BUY" /\ intent.base_price = 5000000
    /\ intent.levels = 5 /\ NumCreates = 5

PlacementOps == SingleOps \cup MultiOps

\* Accepted orders of the running operation that are not yet in the history
Pending == IF pc \in {"record_index", "record_history"} THEN 1 ELSE 0

\* C22: order_history is in the order in which the CreateOrder calls succeeded, whatever
\* the strategy kinds: the entry of an accepted order is appended at the end, and it is
\* appended before the next call can succeed (at most the latest accepted order is missing).
C22_HistoryInSuccessOrder ==
    [][/\ order_history' # order_history =>
              /\ pc = "record_history"
              /\ order_history' = Append(order_history, order_history'[Len(order_history')])
              /\ OrderPart(order_history'[Len(order_history')], order) = order
       /\ op' \in PlacementOps => (NewEntries + Pending)' = NumOk'
       /\ (pc = "call" /\ pc' = "record_index") => Pending = 0 /\ NewEntries = NumOk]_vars

\* C22 witness: two operations of different kinds have each placed an order, and the
\* history holds the earlier one first
C22_Witness ==
    /\ pc = "done" /\ op \in PlacementOps
    /\ Len(order_history) = 2 /\ Len(ledger0.order_history) = 1
    /\ order_history[1].order_type # order_history[2].order_type
    /\ order_history[1] = ledger0.order_history[1]

\* The i-th entry appended by the running operation
NewEntry(i) == order_history[Len(ledger0.order_history) + i]

\* C23: the entries a grid or TWAP run has recorded carry the run's kind and a 1-based
\* index equal to their unit's place in the plan: the i-th entry of a grid run has
\* grid_level = i, the i-th of a TWAP run slice_number = i, within 1..N, so none repeats.
C23_EntriesCarryKindAndIndex ==
    op \in MultiOps =>
        /\ NewEntries <= (IF intent.levels >= 0 THEN intent.levels ELSE 0)
        /\ \A i \in 1..NewEntries :
               /\ NewEntry(i).order_type = op
               /\ IF op = "GRID"
                  THEN NewEntry(i).grid_level = i /\ "slice_number" \notin DOMAIN NewEntry(i)
                  ELSE NewEntry(i).slice_number = i /\ "grid_level" \notin DOMAIN NewEntry(i)
               /\ i \in 1..intent.levels

\* C23 witness: a 2-slice TWAP has returned with slices 1 and 2 recorded
C23_Witness ==
    /\ op = "TWAP" /\ pc = "done" /\ intent.levels = 2
    /\ NewEntries = 2
    /\ NewEntry(1).slice_number = 1 /\ NewEntry(2).slice_number = 2

\* C24: the list place_grid_order / place_twap_order returns is the sequence of the
\* orders whose entries the call appended to order_history, in the same order, also in
\* a run in which a submission failed part-way.
C24_ResultIsAppendedEntries ==
    (op \in MultiOps /\ pc = "done") =>
        /\ Len(result) = NewEntries
        /\ \A i \in 1..NewEntries : OrderPart(NewEntry(i), result[i]) = result[i]

\* The number of CreateOrder calls the exchange has accepted so far: it numbers the
\* orders of each symbol 1, 2, ...
TotalAccepted == (nextId["BTCUSDT"] - 1) + (nextId["ETHUSDT"] - 1)

\* C25: the ledger records successful submissions only: order_history has one entry for
\* every accepted CreateOrder call (the one being recorded right now excepted) and none for
\* a failed one, and between operations the keys of the orders index are the orderIds
\* that appear in order_history.
C25_LedgerHoldsSuccessesOnly ==
    /\ Len(order_history) + Pending = TotalAccepted
    /\ Quiescent => DOMAIN orders = HistoryIds
    /\ (op \in PlacementOps /\ pc = "done" /\ Failed) =>
           NewEntries = NumOk /\ NumCreates = NumOk + 1

\* C25 witness: a grid or TWAP run has returned after one accepted and one rejected
\* submission, with the ledger holding an earlier order as well
C25_Witness ==
    /\ op \in MultiOps /\ pc = "done" /\ Failed
    /\ NumCreates = 2 /\ NumOk = 1
    /\ Len(order_history) = 2 /\ TotalAccepted = 2

ReadOps == {"STATUS", "OPEN_ORDERS", "PRICE", "BALANCE", "VALIDATE", "DISPLAY"}

\* C26: get_order_status, get_open_orders, get_current_price, get_account_balance,
\* validate_symbol and display_order_history leave orders and order_history as they were
\* and make no CreateOrder or CancelOrder call, whether their exchange call succeeded or
\* failed.
C26_QueriesLeaveLedger ==
    op \in ReadOps =>
        /\ orders = ledger0.orders
        /\ order_history = ledger0.order_history
        /\ \A i \in 1..Len(trace) : trace[i].ev \notin {"create", "cancel"}

\* C26 witness: get_order_status has fetched an order that the ledger holds and that the
\* exchange reports as CANCELED; the ledger still has it as recorded
C26_Witness ==
    /\ op = "STATUS" /\ pc = "done" /\ ~Failed
    /\ result.status = "CANCELED"
    /\ intent.orderId \in DOMAIN orders
    /\ orders[intent.orderId].symbol = intent.symbol
    /\ orders[intent.orderId].status = "NEW"

IsSleep(e) == e.ev = "sleep"

\* Waits begun by the running operation: the completed ones and the one in progress
NumWaits == Len(SelectSeq(trace, IsSleep)) + (IF pc = "sleep" THEN 1 ELSE 0)

\* C27: every place_twap_order invocation returns, given that each exchange call returns
\* or raises and each sleep ends; it makes at most N submissions and at most N - 1 waits,
\* and after a failed slice it returns without another wait.
C27_TwapTerminates ==
    /\ [](op = "TWAP" =>
             /\ NumCreates <= (IF intent.levels >= 0 THEN intent.levels ELSE 0)
             /\ NumWaits <= (IF intent.levels >= 1 THEN intent.levels - 1 ELSE 0)
             /\ Failed => pc = "done")
    /\ (op = "TWAP" /\ pc # "done") ~> (op = "TWAP" /\ pc = "done")

\* C27 witness: a 3-slice TWAP has returned after its second slice failed: two
\* submissions, one wait, none after the failure
C27_Witness ==
    /\ op = "TWAP" /\ pc = "done" /\ intent.levels = 3
    /\ Failed /\ NumCreates = 2 /\ NumWaits = 1
    /\ trace[Len(trace) - 1].ev = "create"

====
